---- MODULE Spec2Model ----
(***************************************************************************)
(* closeness_vitality of nx_parallel/algorithms/vitality.py: the unwrap    *)
(* of a parallel-graph wrapper, the whole-graph Wiener index, the          *)
(* single-node branch and the joblib scatter-gather over the nodes.        *)
(***************************************************************************)
EXTENDS Integers, FiniteSets, Sequences, TLC

VARIABLES G, node, weight, supplied, I, wiener_index, pc, vitality, tasks,
          outcome, wcalls, batches, dispatched, nested

vars == <<G, node, weight, supplied, I, wiener_index, pc, vitality, tasks,
          outcome, wcalls, batches, dispatched, nested>>

(* ------------------------------ bounds --------------------------------- *)

\* Input graphs have the nodes 1..n for n up to MaxNodes.
MaxNodes == 3

\* A caller-supplied wiener_index is the graph's own or one of 0..MaxSupplied.
MaxSupplied == 0

(* ------------------------------ values --------------------------------- *)

\* node=None of the signature; graph nodes are 1..n.
NoNode == 0

\* weight=None of the signature, and the edge attribute name otherwise.
NoWeight == "None"
WeightAttr == "weight"

\* Python numbers: a finite number, float("inf"), -inf, nan.  "raise" marks
\* a library call that raised instead of returning; "none" is None.
Num(n) == [t |-> "num", n |-> n]
Inf == [t |-> "inf", n |-> 0]
NegInf == [t |-> "-inf", n |-> 0]
NaN == [t |-> "nan", n |-> 0]
Raised == [t |-> "raise", n |-> 0]
NoneW == [t |-> "none", n |-> 0]

\* Python's float subtraction a - b.
Sub(a, b) ==
    IF a.t = "nan" \/ b.t = "nan" THEN NaN
    ELSE IF a.t = "num" /\ b.t = "num" THEN Num(a.n - b.n)
    ELSE IF a.t = b.t THEN NaN
    ELSE IF a.t = "inf" \/ b.t = "-inf" THEN Inf
    ELSE NegInf

\* What a call ends with: a number, a node -> number mapping, or an error.
Value(x) == [kind |-> "value", val |-> x, map |-> <<>>, err |-> ""]
Mapping(m) == [kind |-> "mapping", val |-> NoneW, map |-> m, err |-> ""]
Error(e) == [kind |-> "error", val |-> NoneW, map |-> <<>>, err |-> e]
NoOutcome == [kind |-> "running", val |-> NoneW, map |-> <<>>, err |-> ""]

UnboundLocalError == "UnboundLocalError"
NetworkXPointlessConcept == "NetworkXPointlessConcept"
WorkerError == "WorkerError"

(* ------------------------------ graphs --------------------------------- *)

PlainClasses == {"Graph", "DiGraph", "MultiGraph", "MultiDiGraph"}
WrapperClasses == {"ParallelGraph", "ParallelDiGraph", "ParallelMultiGraph",
                   "ParallelMultiDiGraph"}

\* A graph: its class, its nodes and its edges {u, v}.  A directed class
\* holds each edge as the two arcs u -> v and v -> u.
Pairs(S) == {e \in SUBSET S : Cardinality(e) = 2}

GraphsOn(n) == {[cls |-> c, nodes |-> 1..n, edges |-> E] :
                    c \in PlainClasses \cup WrapperClasses, E \in SUBSET Pairs(1..n)}

Graphs == UNION {GraphsOn(n) : n \in 0..MaxNodes}

\* The value of edge attribute "weight" on edge {u, v} of the input graphs.
EdgeWeight(u, v) == u + v

\* The local I before any assignment to it.
Unbound == [cls |-> "unbound", nodes |-> {}, edges |-> {}]

isinstance(g, c) == g.cls = c

is_directed(g) == g.cls \in {"DiGraph", "MultiDiGraph", "ParallelDiGraph",
                             "ParallelMultiDiGraph"}

\* <c>.to_networkx(g) of wrapper class c: the plain graph of the matching
\* networkx class with the same nodes and edges.
to_networkx(c, g) ==
    [g EXCEPT !.cls = CASE c = "ParallelGraph" -> "Graph"
                        [] c = "ParallelDiGraph" -> "DiGraph"
                        [] c = "ParallelMultiGraph" -> "MultiGraph"
                        [] c = "ParallelMultiDiGraph" -> "MultiDiGraph"]

\* G.subgraph(ns): the induced subgraph, of the class of G.
subgraph(g, ns) ==
    [cls |-> g.cls, nodes |-> g.nodes \cap ns,
     edges |-> {e \in g.edges : e \subseteq ns}]

(* --------------------------- nx.wiener_index ---------------------------- *)

Min(S) == CHOOSE x \in S : \A y \in S : x <= y

EdgeLen(w, u, v) == IF w = NoWeight THEN 1 ELSE EdgeWeight(u, v)

\* One round of relaxation of the distances d from a source; the domain of
\* d is the set of nodes reached so far.
Relax(g, w, d) ==
    LET reach == DOMAIN d \cup
                 {v \in g.nodes : \E u \in DOMAIN d : {u, v} \in g.edges}
        cand(v) == (IF v \in DOMAIN d THEN {d[v]} ELSE {}) \cup
                   {d[u] + EdgeLen(w, u, v) :
                        u \in {x \in DOMAIN d : {x, v} \in g.edges}}
    IN  [v \in reach |-> Min(cand(v))]

RECURSIVE Rounds(_, _, _, _)
Rounds(g, w, d, k) == IF k = 0 THEN d ELSE Rounds(g, w, Relax(g, w, d), k - 1)

\* The dict of shortest path lengths from s: reachable node -> length.
shortest_path_length(g, w, s) ==
    Rounds(g, w, [v \in {s} |-> 0], Cardinality(g.nodes))

RECURSIVE SumOver(_, _)
SumOver(f, S) ==
    IF S = {} THEN 0
    ELSE LET x == CHOOSE y \in S : TRUE IN f[x] + SumOver(f, S \ {x})

\* is_connected / is_strongly_connected of a graph with at least one node:
\* every node is reached from an arbitrary one (each edge runs both ways).
is_connected(g) ==
    LET s == CHOOSE x \in g.nodes : TRUE
    IN  DOMAIN shortest_path_length(g, NoWeight, s) = g.nodes

\* nx.wiener_index(g, weight=w): raises on the null graph, inf when not
\* (strongly) connected, else the sum of the shortest path lengths over the
\* ordered pairs, halved for an undirected graph.
nx_wiener_index(g, w) ==
    IF g.nodes = {} THEN Raised
    ELSE IF ~is_connected(g) THEN Inf
    ELSE LET p == [s \in g.nodes |-> shortest_path_length(g, w, s)]
             row == [s \in g.nodes |-> SumOver(p[s], DOMAIN p[s])]
             total == SumOver(row, g.nodes)
         IN  Num(IF is_directed(g) THEN total ELSE total \div 2)

(* -------------------------- closeness_vitality -------------------------- *)

\* Lines 65-72: the four isinstance tests in turn, each assigning I; I stays
\* unbound when none matches.
Unwrap(g) ==
    LET i1 == IF isinstance(g, "ParallelMultiDiGraph")
              THEN to_networkx("ParallelMultiDiGraph", g) ELSE Unbound
        i2 == IF isinstance(g, "ParallelMultiGraph")
              THEN to_networkx("ParallelMultiGraph", g) ELSE i1
        i3 == IF isinstance(g, "ParallelDiGraph")
              THEN to_networkx("ParallelDiGraph", g) ELSE i2
        i4 == IF isinstance(g, "ParallelGraph")
              THEN to_networkx("ParallelGraph", g) ELSE i3
    IN  i4

\* Line 76: nx.wiener_index(G.subgraph(set(G) - {node}), weight=weight).
After(g, nd, w) == nx_wiener_index(subgraph(g, g.nodes \ {nd}), w)

\* Lines 76-77: the single-node branch, given the whole-graph value wi.
SingleNodeBranch(g, nd, w, wi) ==
    LET after == After(g, nd, w)
    IN  IF after = Raised THEN Error(NetworkXPointlessConcept)
        ELSE Value(Sub(wi, after))

\* dict(result) of a sequence of (key, value) pairs: a later pair wins.
dict(result) ==
    LET keys == {result[i][1] : i \in DOMAIN result}
        last(k) == CHOOSE i \in DOMAIN result :
                       /\ result[i][1] = k
                       /\ \A j \in DOMAIN result : result[j][1] = k => j <= i
    IN  [k \in keys |-> result[last(k)][2]]

\* The nodes of a graph in iteration order (for v in I).
RECURSIVE Ordered(_)
Ordered(S) == IF S = {} THEN <<>> ELSE <<Min(S)>> \o Ordered(S \ {Min(S)})

\* Line 80, "for v in I": the nodes a task is made for.
TaskNodes_skipsOne(i) == i.nodes \ {1}

TaskNodes(i) == i.nodes

\* One whole call closeness_vitality(g, nd, w, wi), run to its end: what it
\* ends with (out), the whole-graph value it worked with (wi), the branch
\* line 75 took if reached, how often it called nx.wiener_index on the whole
\* graph (wcalls), and the batches and tasks it handed to Parallel, its
\* tasks' own included.
RECURSIVE closeness_vitality(_, _, _, _)
closeness_vitality(g, nd, w, wi) ==
    LET i == Unwrap(g)
        omitted == wi = NoneW
        whole == IF omitted THEN nx_wiener_index(i, w) ELSE wi
        calls == IF omitted THEN 1 ELSE 0
        fail(e, x, b, c) == [out |-> Error(e), wi |-> x, branch |-> b,
                             wcalls |-> c, batches |-> 0, dispatched |-> 0]
    IN  IF omitted /\ i = Unbound THEN fail(UnboundLocalError, NoneW, "none", 0)
        ELSE IF whole = Raised
        THEN fail(NetworkXPointlessConcept, NoneW, "none", calls)
        ELSE IF nd # NoNode
        THEN [out |-> SingleNodeBranch(g, nd, w, whole), wi |-> whole,
              branch |-> "single", wcalls |-> calls, batches |-> 0,
              dispatched |-> 0]
        ELSE IF i = Unbound THEN fail(UnboundLocalError, whole, "all", calls)
        ELSE LET sub == [v \in TaskNodes(i) |->
                             closeness_vitality(i, v, w, whole)]
                 bad == {v \in DOMAIN sub : sub[v].out.kind = "error"}
                 order == Ordered(DOMAIN sub)
                 result == [k \in DOMAIN order |->
                                <<order[k], sub[order[k]].out.val>>]
                 count(f) == LET c == [v \in DOMAIN sub |-> sub[v][f]]
                             IN  SumOver(c, DOMAIN sub)
             IN  [out |-> IF bad = {} THEN Mapping(dict(result))
                          ELSE Error(sub[Min(bad)].out.err),
                  wi |-> whole,
                  branch |-> "all",
                  wcalls |-> calls + count("wcalls"),
                  batches |-> 1 + count("batches"),
                  dispatched |-> Cardinality(DOMAIN sub) + count("dispatched")]

(* ----------------------------- the call --------------------------------- *)

\* The values a caller passes as wiener_index besides None.
Supplied(g, w) ==
    LET own == nx_wiener_index(g, w)
    IN  (IF own = Raised THEN {} ELSE {own}) \cup {Num(n) : n \in 0..MaxSupplied}

NoTasks == <<>>
NoPartial == [G |-> Unbound, weight |-> NoWeight, wiener_index |-> NoneW]

Init ==
    /\ G \in Graphs
    /\ node \in G.nodes \cup {NoNode}
    /\ weight \in {NoWeight, WeightAttr}
    /\ supplied \in {NoneW} \cup Supplied(G, weight)
    /\ wiener_index = supplied
    /\ I = Unbound
    /\ pc = "l65"
    /\ vitality = NoPartial
    /\ tasks = NoTasks
    /\ outcome = NoOutcome
    /\ wcalls = 0
    /\ batches = 0
    /\ dispatched = 0
    /\ nested = 0

\* The call ends with outcome o.
Finish(o) == outcome' = o /\ pc' = "done"

\* Lines 65-72.
UnwrapStep ==
    /\ pc = "l65"
    /\ I' = Unwrap(G)
    /\ pc' = "l73"
    /\ UNCHANGED <<G, node, weight, supplied, wiener_index, vitality, tasks,
                   outcome, wcalls, batches, dispatched, nested>>

\* Lines 73-74 with wiener_index None: I is read, and the Wiener index of
\* the whole graph is computed.
WienerOmitted ==
    /\ pc = "l73"
    /\ wiener_index = NoneW
    /\ IF I = Unbound
       THEN /\ Finish(Error(UnboundLocalError))
            /\ UNCHANGED <<wiener_index, wcalls>>
       ELSE \E r \in {nx_wiener_index(I, weight)} :
                /\ wcalls' = wcalls + 1
                /\ IF r = Raised
                   THEN /\ Finish(Error(NetworkXPointlessConcept))
                        /\ UNCHANGED wiener_index
                   ELSE /\ wiener_index' = r
                        /\ pc' = "l75"
                        /\ UNCHANGED outcome
    /\ UNCHANGED <<G, node, weight, supplied, I, vitality, tasks, batches,
                   dispatched, nested>>

\* Line 73 with wiener_index given: nothing is computed.
WienerSupplied ==
    /\ pc = "l73"
    /\ wiener_index # NoneW
    /\ pc' = "l75"
    /\ UNCHANGED <<G, node, weight, supplied, I, wiener_index, vitality, tasks,
                   outcome, wcalls, batches, dispatched, nested>>

\* Lines 75-77.
SingleNode ==
    /\ pc = "l75"
    /\ node # NoNode
    /\ Finish(SingleNodeBranch(G, node, weight, wiener_index))
    /\ UNCHANGED <<G, node, weight, supplied, I, wiener_index, vitality, tasks,
                   wcalls, batches, dispatched, nested>>

\* A task of the batch: not yet run.
Pending == [st |-> "pending", pair |-> <<NoNode, NoneW>>, err |-> "",
            wi |-> NoneW, branch |-> "none", attempts |-> 0]

\* Line 78: partial(closeness_vitality, I, weight=weight,
\* wiener_index=wiener_index).
partial_noWeight(i, w, wi) == [G |-> i, weight |-> NoWeight, wiener_index |-> wi]

partial_noWienerIndex(i, w, wi) == [G |-> i, weight |-> w, wiener_index |-> NoneW]

partial(i, w, wi) == [G |-> i, weight |-> w, wiener_index |-> wi]

\* Lines 78-81: the partial application, and one delayed call per node of I
\* handed to Parallel in one batch.
Dispatch ==
    /\ pc = "l75"
    /\ node = NoNode
    /\ IF I = Unbound
       THEN /\ Finish(Error(UnboundLocalError))
            /\ UNCHANGED <<vitality, tasks, batches, dispatched>>
       ELSE /\ vitality' = partial(I, weight, wiener_index)
            /\ tasks' = [v \in TaskNodes(I) |-> Pending]
            /\ batches' = batches + 1
            /\ dispatched' = dispatched + Cardinality(TaskNodes(I))
            /\ pc' = "gather"
            /\ UNCHANGED outcome
    /\ UNCHANGED <<G, node, weight, supplied, I, wiener_index, wcalls, nested>>

\* vitality(v): the partial applied to v.
ApplyPartial(p, v) == closeness_vitality(p.G, v, p.weight, p.wiener_index)

\* A worker runs the task of v: lambda v: (v, vitality(v)).
RunTask(v) ==
    /\ pc = "gather"
    /\ tasks[v].st = "pending"
    /\ \E r \in {ApplyPartial(vitality, v)} :
           /\ tasks' = [tasks EXCEPT ![v] =
                  [st |-> IF r.out.kind = "error" THEN "failed" ELSE "done",
                   pair |-> <<v, r.out.val>>,
                   err |-> r.out.err,
                   wi |-> r.wi,
                   branch |-> r.branch,
                   attempts |-> tasks[v].attempts + 1]]
           /\ wcalls' = wcalls + r.wcalls
           /\ nested' = nested + r.dispatched
    /\ UNCHANGED <<G, node, weight, supplied, I, wiener_index, pc, vitality,
                   outcome, batches, dispatched>>

\* The list Parallel returns: the tasks' pairs in the order of the input.
Gathered ==
    LET order == Ordered(DOMAIN tasks)
    IN  [k \in DOMAIN order |-> tasks[order[k]].pair]

\* Parallel(...)(...) returns its list once every task has returned.
AllReturned_ignoresFailed == \A v \in DOMAIN tasks : tasks[v].st # "pending"

AllReturned == \A v \in DOMAIN tasks : tasks[v].st = "done"

\* Line 82, on the list Parallel returned.
Return ==
    /\ pc = "gather"
    /\ AllReturned
    /\ Finish(Mapping(dict(Gathered)))
    /\ UNCHANGED <<G, node, weight, supplied, I, wiener_index, vitality, tasks,
                   wcalls, batches, dispatched, nested>>

\* Parallel re-raises the error of a task that raised, in the caller.
Propagate ==
    /\ pc = "gather"
    /\ \E v \in DOMAIN tasks :
          /\ tasks[v].st = "failed"
          /\ Finish(Error(tasks[v].err))
    /\ UNCHANGED <<G, node, weight, supplied, I, wiener_index, vitality, tasks,
                   wcalls, batches, dispatched, nested>>

\* A worker fails while it runs the task of v (it runs out of memory, it is
\* killed): the task raises.
WorkerFault(v) ==
    /\ pc = "gather"
    /\ tasks[v].st = "pending"
    /\ tasks' = [tasks EXCEPT ![v] =
           [st |-> "failed", pair |-> <<NoNode, NoneW>>, err |-> WorkerError,
            wi |-> NoneW, branch |-> "none",
            attempts |-> tasks[v].attempts + 1]]
    /\ UNCHANGED <<G, node, weight, supplied, I, wiener_index, pc, vitality,
                   outcome, wcalls, batches, dispatched, nested>>

Next ==
    \/ UnwrapStep
    \/ WienerOmitted
    \/ WienerSupplied
    \/ SingleNode
    \/ Dispatch
    \/ \E v \in DOMAIN tasks : RunTask(v)
    \/ Return
    \/ Propagate

Spec == Init /\ [][Next]_vars

NextFault == Next \/ \E v \in DOMAIN tasks : WorkerFault(v)

\* The call with workers that may fail.
SpecFault == Init /\ [][NextFault]_vars

(* ------------------------------ claims ---------------------------------- *)

Done == pc = "done"

IsWrapper(g) == g.cls \in WrapperClasses

Connected(g) == g.nodes # {} /\ is_connected(g)

\* G - v: the induced subgraph on all nodes of g except v.
Without(g, v) == subgraph(g, g.nodes \ {v})

\* Removing v from g leaves a graph that is not connected.
Disconnects(g, v) == Without(g, v).nodes # {} /\ ~is_connected(Without(g, v))

\* The 3-cycle nx.cycle_graph(3) as a graph of class c.
Cycle3(c) == [cls |-> c, nodes |-> 1..3, edges |-> Pairs(1..3)]

\* C1: for every connected graph G and node v of G (G - v not the null
\* graph, whose Wiener index is undefined), closeness_vitality(G, node=v)
\* returns wiener_index(G) - wiener_index(G - v).
C1_VitalityIsWienerDrop ==
    (/\ Done
     /\ node # NoNode
     /\ supplied = NoneW
     /\ Connected(G)
     /\ Cardinality(G.nodes) >= 2)
    => outcome = Value(Sub(nx_wiener_index(G, weight),
                           nx_wiener_index(Without(G, node), weight)))

\* C2: the key set of the mapping an all-nodes call returns is exactly the
\* node set of the graph, whatever the order the tasks completed in.
C2_MappingKeysAreNodes ==
    outcome.kind = "mapping" => DOMAIN outcome.map = G.nodes

C2_Witness ==
    /\ Done
    /\ outcome.kind = "mapping"
    /\ Cardinality(G.nodes) >= 3
    /\ DOMAIN outcome.map = G.nodes

\* C3: in the mapping an all-nodes call returns, the value under v is the
\* result of the single-node call on G for v with the same weight and the
\* same whole-graph Wiener index.
C3_MappingValuesAreSingleNodeResults ==
    outcome.kind = "mapping" =>
        \A v \in DOMAIN outcome.map :
            closeness_vitality(G, v, weight, wiener_index).out
                = Value(outcome.map[v])

C3_Witness ==
    /\ Done
    /\ outcome.kind = "mapping"
    /\ weight = WeightAttr
    /\ G.edges # {}
    /\ \E v \in DOMAIN outcome.map : outcome.map[v].t = "num" /\ outcome.map[v].n > 0

\* C4: for a connected graph G and a node v whose removal disconnects it,
\* the vitality returned for v is negative infinity and not an error, in the
\* single-node call and in the all-nodes mapping.
C4_DisconnectingNodeIsNegInf ==
    (Done /\ Connected(G)) =>
        /\ (node # NoNode /\ Disconnects(G, node)) => outcome = Value(NegInf)
        /\ (node = NoNode /\ \E v \in G.nodes : Disconnects(G, v)) =>
              /\ outcome.kind = "mapping"
              /\ \A v \in G.nodes :
                    Disconnects(G, v) => outcome.map[v] = NegInf

\* Two calls end the same: with the same value, the same mapping, or both
\* with an error (of whatever type).
SameOutcome(a, b) == a.kind = b.kind /\ (a.kind = "error" \/ a = b)

\* C5: a call given the wiener_index that nx.wiener_index computes for G ends
\* as the same call with wiener_index omitted.
C5_PrecomputedWienerSameOutcome ==
    LET own == nx_wiener_index(G, weight)
    IN  (Done /\ own # Raised) =>
            /\ supplied = NoneW =>
                  SameOutcome(outcome,
                              closeness_vitality(G, node, weight, own).out)
            /\ supplied = own =>
                  SameOutcome(outcome,
                              closeness_vitality(G, node, weight, NoneW).out)

\* C6: a call with a wrapped graph ends as the same call with the plain
\* graph the wrapper unwraps to.
C6_WrappedSameAsUnwrapped ==
    (Done /\ IsWrapper(G)) =>
        SameOutcome(outcome,
                    closeness_vitality(to_networkx(G.cls, G), node, weight,
                                       supplied).out)

\* C7: a graph that is no wrapper is used as the plain graph: the call never
\* fails with an error of the function's own code, and on the plain 3-cycle
\* it returns 2.0 for every node.
C7_PlainGraphPassesThrough ==
    (Done /\ ~IsWrapper(G)) =>
        /\ ~(outcome.kind = "error" /\ outcome.err = UnboundLocalError)
        /\ (G = Cycle3("Graph") /\ weight = NoWeight
                /\ supplied \in {NoneW, Num(3)}) =>
              IF node # NoNode THEN outcome = Value(Num(2))
              ELSE outcome = Mapping([v \in 1..3 |-> Num(2)])

\* C8: when a task of an all-nodes call raised, the call ends with an error
\* and never with a mapping, and no task is run a second time.
C8_TaskErrorFailsCall ==
    /\ \A v \in DOMAIN tasks : tasks[v].attempts <= 1
    /\ (Done /\ \E v \in DOMAIN tasks : tasks[v].st = "failed") =>
          outcome.kind = "error"

C8_Witness ==
    /\ Done
    /\ outcome.kind = "error"
    /\ \E v \in DOMAIN tasks : tasks[v].st = "failed"
    /\ \E v \in DOMAIN tasks : tasks[v].st = "done"

\* C9: one call computes the Wiener index of the whole graph at most once,
\* and not at all when the caller supplied it, and every task that ran
\* worked with the value the call holds.
C9_WienerIndexComputedOnce ==
    /\ wcalls <= 1
    /\ supplied # NoneW => wcalls = 0
    /\ \A v \in DOMAIN tasks :
          tasks[v].st # "pending" => tasks[v].wi = wiener_index

C9_Witness ==
    /\ Done
    /\ supplied = NoneW
    /\ wcalls = 1
    /\ Cardinality({v \in DOMAIN tasks : tasks[v].st = "done"}) >= 2

\* C10: an all-nodes call on a graph with n nodes hands Parallel exactly n
\* tasks, one per node, in a single batch, and every task that ran took the
\* single-node branch and handed Parallel nothing itself.
C10_OneTaskPerNode ==
    /\ batches <= 1
    /\ nested = 0
    /\ batches = 0 => dispatched = 0 /\ tasks = NoTasks
    /\ batches = 1 => node = NoNode /\ DOMAIN tasks = G.nodes
    /\ (Done /\ node = NoNode) => dispatched = Cardinality(G.nodes)
    /\ \A v \in DOMAIN tasks :
          tasks[v].st # "pending" => tasks[v].branch = "single"

====
